---- MODULE Spec2Model ----
(***************************************************************************)
(* Model of scripts/convert_yolov8n-seg_to_onnx.py: the entry point main   *)
(* and the conversion driver convert_yolo_to_onnx, run on a small file     *)
(* system.  One invocation is the linear sequence                          *)
(*   resolve -> check -> load -> export -> mkdir -> move -> verify ->      *)
(*   report,                                                               *)
(* and the tool may be invoked again with the same command line on the     *)
(* file system the previous invocation left behind.                        *)
(***************************************************************************)
EXTENDS Integers, Sequences, FiniteSets, TLC

VARIABLES
    argv,           \* sys.argv[1:], the positional arguments
    env,            \* behaviour of the external libraries for these inputs
    fs,             \* file system: existing path -> node
    fs0,            \* file system when the current invocation started
    run,            \* number of the current invocation
    prev,           \* exit status and file system of the previous invocation
    pc,             \* position in main / convert_yolo_to_onnx
    model_path,     \* main: str(model_path)
    output_path,    \* main: str(output_path)
    exported_path,  \* convert_yolo_to_onnx: exported_path
    exportCfg,      \* keyword arguments model.export was called with
    successMsg,     \* path printed by line 82, "Successfully exported model to"
    verifyTarget,   \* path handed to onnx.load
    verifyResult,   \* what the verification block printed
    returned,       \* value returned by convert_yolo_to_onnx
    reported,       \* path printed by line 141, "ONNX model saved to"
    errMsg,         \* message printed by the except clause of main
    exitCode,       \* process exit status, -1 while running
    trace           \* steps executed by the current invocation, with outcome

vars == <<argv, env, fs, fs0, run, prev, pc, model_path, output_path,
          exported_path, exportCfg, successMsg, verifyTarget, verifyResult,
          returned, reported, errMsg, exitCode, trace>>

(***************************************************************************)
(* Bounds.                                                                 *)
(***************************************************************************)
MaxRuns == 2
MaxArgs == 3

(***************************************************************************)
(* Paths.  A location is a sequence of name components; a path text is a   *)
(* location written in one of three forms: "plain" (relative, normalised), *)
(* "dotted" (relative with a leading ./) and "abs" (absolute).  Two texts  *)
(* of different form compare unequal as strings and name the same file.    *)
(***************************************************************************)
Nm(s, e) == [stem |-> s, ext |-> e]

Txt(f, l) == [form |-> f, loc |-> l]

NoPath == Txt("none", <<>>)

\* pathlib.Path(s) followed by str(): a leading "./" is dropped, nothing
\* else changes (no resolution to an absolute path).
PathStr(t) == IF t.form = "dotted" THEN Txt("plain", t.loc) ELSE t

ModelsDir == <<Nm("public", ""), Nm("models", "")>>

DefaultModelPath == Txt("abs", Append(ModelsDir, Nm("yolov8n-seg-pothole", "pt")))

DefaultOutputPath == Txt("abs", Append(ModelsDir, Nm("yolov8n-seg-pothole", "onnx")))

Parent(l) == SubSeq(l, 1, Len(l) - 1)

Prefixes(l) == {SubSeq(l, 1, k) : k \in 1..Len(l)}

\* Path.with_suffix(".onnx") as the export library applies it to the
\* checkpoint path: same directory, same stem.
LibLoc(l) == [l EXCEPT ![Len(l)].ext = "onnx"]

(***************************************************************************)
(* File-system nodes.                                                      *)
(***************************************************************************)
Dir == [kind |-> "dir", run |-> 0]
Ckpt == [kind |-> "ckpt", run |-> 0]
Stale == [kind |-> "onnx", run |-> 0]
Artifact(r) == [kind |-> "onnx", run |-> r]
Partial(r) == [kind |-> "partial", run |-> r]

IsDir(f, l) == l = <<>> \/ (l \in DOMAIN f /\ f[l].kind = "dir")

(***************************************************************************)
(* Inputs: command lines, library behaviour, initial file systems.         *)
(***************************************************************************)
XModelLoc == <<Nm("in", ""), Nm("x", "pt")>>

P1Loc == <<Nm("out", ""), Nm("sub", ""), Nm("y", "onnx")>>

DstLoc == <<Nm("dst", "")>>

InArgs == {Txt("plain", XModelLoc), Txt("dotted", XModelLoc)}

OutArgs == {Txt("plain", P1Loc), Txt("plain", DstLoc), Txt("plain", LibLoc(XModelLoc))}

ExtraArg == Txt("plain", <<Nm("extra", "")>>)

ArgvSet ==
    {<<>>} \cup {<<i>> : i \in InArgs}
    \cup {<<i, o>> \o [k \in 1..n |-> ExtraArg] :
            i \in InArgs, o \in OutArgs, n \in 0..(MaxArgs - 2)}

EnvSet ==
    [ loadOK    : BOOLEAN,                               \* YOLO(model_path) parses the checkpoint
      export    : {"ok", "raise_clean", "raise_partial"}, \* model.export returns, or raises before / after writing
      retForm   : {"plain", "abs"},                      \* form of the path string model.export returns
      validator : {"pass", "missing", "loadfail", "invalid"} ]

BaseFS ==
    (<<Nm("public", "")>> :> Dir) @@ (ModelsDir :> Dir) @@ (<<Nm("in", "")>> :> Dir)

CkptFS == {BaseFS, (DefaultModelPath.loc :> Ckpt) @@ (XModelLoc :> Ckpt) @@ BaseFS}

OutFS ==
    { BaseFS,
      (<<Nm("out", "")>> :> Stale) @@ BaseFS,
      (<<Nm("out", "")>> :> Dir) @@ (Parent(P1Loc) :> Dir) @@ BaseFS,
      (<<Nm("out", "")>> :> Dir) @@ (Parent(P1Loc) :> Dir) @@ (P1Loc :> Stale) @@ BaseFS }

DstFS ==
    { BaseFS,
      (DstLoc :> Stale) @@ BaseFS,
      (DstLoc :> Dir) @@ BaseFS,
      (DstLoc :> Dir) @@ (Append(DstLoc, Nm("x", "onnx")) :> Stale) @@ BaseFS }

DefOutFS ==
    { BaseFS,
      (DefaultOutputPath.loc :> Stale) @@ BaseFS,
      (DefaultOutputPath.loc :> Dir) @@ BaseFS }

InitFS == {a @@ b @@ c @@ d : a \in CkptFS, b \in OutFS, c \in DstFS, d \in DefOutFS}

NoMsg == [kind |-> "none", cause |-> "none"]

NoCfg == [format |-> "none", imgsz |-> 0, simplify |-> FALSE, opset |-> 0,
          nms |-> FALSE, dynamic |-> FALSE]

NoPrev == [exit |-> -1, fs |-> BaseFS]

(***************************************************************************)
(* main, lines 118-127: defaults and positional arguments.                 *)
(***************************************************************************)
ResolveModel(a) == IF Len(a) > 0 THEN PathStr(a[1]) ELSE PathStr(DefaultModelPath)

\* variant: with one argument the output is derived from the input path
ResolveOutputFromInput(a) ==
    IF Len(a) > 1 THEN PathStr(a[2])
    ELSE IF Len(a) > 0 THEN Txt(PathStr(a[1]).form, LibLoc(a[1].loc))
    ELSE PathStr(DefaultOutputPath)

ResolveOutput(a) == IF Len(a) > 1 THEN PathStr(a[2]) ELSE PathStr(DefaultOutputPath)

ImgSz == 640
Opset == 17

\* main, lines 131-137, and the keyword arguments of lines 65-72.
ExportConfig ==
    [format |-> "onnx", imgsz |-> ImgSz, simplify |-> TRUE, opset |-> Opset,
     nms |-> TRUE, dynamic |-> FALSE]

(***************************************************************************)
(* convert_yolo_to_onnx.                                                   *)
(***************************************************************************)
\* variant: the existence check is skipped
InputExistsUnchecked(f, l) == TRUE

\* line 38: Path(model_path).exists()
InputExists(f, l) == l \in DOMAIN f

\* line 43: YOLO(model_path) and the model-information prints
LoadSucceeds(f, l, e) == l \in DOMAIN f /\ f[l].kind = "ckpt" /\ e.loadOK

\* lines 65-72: outcome of model.export; it cannot write a file where a
\* directory stands.
ExportOutcome(f, l, e) == IF IsDir(f, LibLoc(l)) THEN "raise_clean" ELSE e.export

\* file system after model.export
ExportWrite(f, l, o, r) ==
    IF o = "ok" THEN (LibLoc(l) :> Artifact(r)) @@ f
    ELSE IF o = "raise_partial" THEN (LibLoc(l) :> Partial(r)) @@ f
    ELSE f

\* line 75: output_path and str(exported_path) != str(output_path)
NeedsMove(ex, out) == out # NoPath /\ ex # out

\* line 78: output_path.parent.mkdir(parents=True, exist_ok=True)
MkdirOK(f, d) == \A p \in Prefixes(d) : p \notin DOMAIN f \/ f[p].kind = "dir"

MkdirParents(f, d) == [p \in Prefixes(d) \ DOMAIN f |-> Dir] @@ f

\* line 79: shutil.move(src, dst); a destination that is a directory
\* receives the file under the source's base name.
RealDst(f, src, dst) == IF IsDir(f, dst) THEN Append(dst, src[Len(src)]) ELSE dst

MoveOK(f, src, dst) == ~(IsDir(f, dst) /\ RealDst(f, src, dst) \in DOMAIN f)

\* variant: copy to the destination, then unlink the source, without the
\* same-file case of os.rename
ShutilMoveCopyUnlink(f, src, dst) ==
    LET r == RealDst(f, src, dst)
    IN  [p \in (DOMAIN f \cup {r}) \ {src} |-> IF p = r THEN f[src] ELSE f[p]]

ShutilMove(f, src, dst) ==
    LET r == RealDst(f, src, dst)
    IN  IF r = src THEN f
        ELSE [p \in (DOMAIN f \cup {r}) \ {src} |-> IF p = r THEN f[src] ELSE f[p]]

\* lines 85-88: import onnx, onnx.load, onnx.checker.check_model
VerifyOutcome(f, l, e) ==
    IF e.validator = "missing" THEN "missing"
    ELSE IF ~(l \in DOMAIN f /\ f[l].kind = "onnx") THEN "loadfail"
    ELSE e.validator

\* variant: only the ImportError clause, no "except Exception"
VerifyCaughtImportOnly(o) == o = "missing"

\* lines 104-108: except ImportError / except Exception
VerifyCaught(o) == o \in {"missing", "loadfail", "invalid"}

\* variant: a failure of the relocation is reported as its own kind
ErrKindRelocate(step) ==
    CASE step = "check" -> "notfound"
      [] step = "load" -> "load"
      [] step \in {"mkdir", "move"} -> "relocate"
      [] OTHER -> "export"

\* lines 39, 54, 113: the error raised for a failing step
ErrKind(step) ==
    CASE step = "check" -> "notfound"
      [] step = "load" -> "load"
      [] OTHER -> "export"

\* variant: the except clause of main prints and returns without sys.exit(1)
ExitStatusNoExit(raised) == 0

\* lines 144-151 (sys.exit(1)) against falling off the end of main
ExitStatus(raised) == IF raised THEN 1 ELSE 0

Step(s, ok) == [step |-> s, ok |-> ok]

\* an exception leaves the driver and reaches the except clause of main
Raise(s) ==
    /\ errMsg' = [kind |-> ErrKind(s), cause |-> s]
    /\ exitCode' = ExitStatus(TRUE)
    /\ trace' = Append(trace, Step(s, FALSE))
    /\ pc' = "done"

Ok(s, next) ==
    /\ trace' = Append(trace, Step(s, TRUE))
    /\ pc' = next
    /\ UNCHANGED <<errMsg, exitCode>>

Init ==
    /\ argv \in ArgvSet
    /\ env \in EnvSet
    /\ fs \in InitFS
    /\ fs0 = fs
    /\ run = 1
    /\ prev = NoPrev
    /\ pc = "main"
    /\ model_path = NoPath
    /\ output_path = NoPath
    /\ exported_path = NoPath
    /\ exportCfg = NoCfg
    /\ successMsg = NoPath
    /\ verifyTarget = NoPath
    /\ verifyResult = "none"
    /\ returned = NoPath
    /\ reported = NoPath
    /\ errMsg = NoMsg
    /\ exitCode = -1
    /\ trace = <<>>

\* main, lines 118-127
Resolve ==
    /\ pc = "main"
    /\ model_path' = ResolveModel(argv)
    /\ output_path' = ResolveOutput(argv)
    /\ Ok("resolve", "check")
    /\ UNCHANGED <<argv, env, fs, fs0, run, prev, exported_path, exportCfg,
                   successMsg, verifyTarget, verifyResult, returned, reported>>

\* lines 38-39
CheckExists ==
    /\ pc = "check"
    /\ IF InputExists(fs, model_path.loc) THEN Ok("check", "load") ELSE Raise("check")
    /\ UNCHANGED <<argv, env, fs, fs0, run, prev, model_path, output_path,
                   exported_path, exportCfg, successMsg, verifyTarget,
                   verifyResult, returned, reported>>

\* lines 42-54
Load ==
    /\ pc = "load"
    /\ IF LoadSucceeds(fs, model_path.loc, env) THEN Ok("load", "export") ELSE Raise("load")
    /\ UNCHANGED <<argv, env, fs, fs0, run, prev, model_path, output_path,
                   exported_path, exportCfg, successMsg, verifyTarget,
                   verifyResult, returned, reported>>

\* lines 62-72 and, when no relocation is needed, lines 75 and 82
Export ==
    /\ pc = "export"
    /\ exportCfg' = ExportConfig
    /\ LET o == ExportOutcome(fs, model_path.loc, env)
           ex == Txt(env.retForm, LibLoc(model_path.loc))
       IN  /\ fs' = ExportWrite(fs, model_path.loc, o, run)
           /\ IF o # "ok"
              THEN Raise("export") /\ UNCHANGED <<exported_path, successMsg>>
              ELSE /\ exported_path' = ex
                   /\ IF NeedsMove(ex, output_path)
                      THEN Ok("export", "mkdir") /\ UNCHANGED successMsg
                      ELSE Ok("export", "verify") /\ successMsg' = ex
    /\ UNCHANGED <<argv, env, fs0, run, prev, model_path, output_path,
                   verifyTarget, verifyResult, returned, reported>>

\* lines 77-78
Mkdir ==
    /\ pc = "mkdir"
    /\ LET d == Parent(output_path.loc)
       IN  IF MkdirOK(fs, d)
           THEN fs' = MkdirParents(fs, d) /\ Ok("mkdir", "move")
           ELSE fs' = fs /\ Raise("mkdir")
    /\ UNCHANGED <<argv, env, fs0, run, prev, model_path, output_path,
                   exported_path, exportCfg, successMsg, verifyTarget,
                   verifyResult, returned, reported>>

\* lines 79-82
Move ==
    /\ pc = "move"
    /\ IF MoveOK(fs, exported_path.loc, output_path.loc)
       THEN /\ fs' = ShutilMove(fs, exported_path.loc, output_path.loc)
            /\ exported_path' = output_path
            /\ successMsg' = output_path
            /\ Ok("move", "verify")
       ELSE /\ Raise("move")
            /\ UNCHANGED <<fs, exported_path, successMsg>>
    /\ UNCHANGED <<argv, env, fs0, run, prev, model_path, output_path,
                   exportCfg, verifyTarget, verifyResult, returned, reported>>

\* lines 84-108
Verify ==
    /\ pc = "verify"
    /\ LET o == VerifyOutcome(fs, exported_path.loc, env)
       IN  /\ verifyTarget' = exported_path
           /\ verifyResult' = o
           /\ IF o = "pass" \/ VerifyCaught(o) THEN Ok("verify", "report") ELSE Raise("verify")
    /\ UNCHANGED <<argv, env, fs, fs0, run, prev, model_path, output_path,
                   exported_path, exportCfg, successMsg, returned, reported>>

\* line 110 and main, lines 139-142, then the normal end of the process
Report ==
    /\ pc = "report"
    /\ returned' = exported_path
    /\ reported' = exported_path
    /\ exitCode' = ExitStatus(FALSE)
    /\ trace' = Append(trace, Step("report", TRUE))
    /\ pc' = "done"
    /\ UNCHANGED <<argv, env, fs, fs0, run, prev, model_path, output_path,
                   exported_path, exportCfg, successMsg, verifyTarget,
                   verifyResult, errMsg>>

\* the user runs the tool again with the same command line
Rerun ==
    /\ pc = "done"
    /\ run < MaxRuns
    /\ run' = run + 1
    /\ prev' = [exit |-> exitCode, fs |-> fs]
    /\ fs0' = fs
    /\ pc' = "main"
    /\ model_path' = NoPath
    /\ output_path' = NoPath
    /\ exported_path' = NoPath
    /\ exportCfg' = NoCfg
    /\ successMsg' = NoPath
    /\ verifyTarget' = NoPath
    /\ verifyResult' = "none"
    /\ returned' = NoPath
    /\ reported' = NoPath
    /\ errMsg' = NoMsg
    /\ exitCode' = -1
    /\ trace' = <<>>
    /\ UNCHANGED <<argv, env, fs>>

Next ==
    \/ Resolve
    \/ CheckExists
    \/ Load
    \/ Export
    \/ Mkdir
    \/ Move
    \/ Verify
    \/ Report
    \/ Rerun

Spec == Init /\ [][Next]_vars

(***************************************************************************)
(* Properties.                                                             *)
(***************************************************************************)
Did(s) == \E i \in 1..Len(trace) : trace[i].step = s

DidOk(s) == \E i \in 1..Len(trace) : trace[i].step = s /\ trace[i].ok

Failed(s) == \E i \in 1..Len(trace) : trace[i].step = s /\ ~trace[i].ok

Holds(f, l, n) == l \in DOMAIN f /\ f[l] = n

InputLoc == ResolveModel(argv).loc

\* C1: when the input checkpoint path does not exist, the tool prints the
\* not-found message and exits non-zero, load and export are never invoked,
\* and the file system is left exactly as it was (no file at the library's
\* default output location, none at the requested output path).
C1_NotFound ==
    (pc # "main" /\ InputLoc \notin DOMAIN fs0) =>
        /\ ~Did("load") /\ ~Did("export")
        /\ exportCfg = NoCfg
        /\ fs = fs0
        /\ pc \in {"check", "done"}
        /\ pc = "done" =>
              /\ errMsg = [kind |-> "notfound", cause |-> "check"]
              /\ exitCode # 0 /\ exitCode # -1
              /\ reported = NoPath /\ returned = NoPath

C1_Witness ==
    /\ pc = "done" /\ InputLoc \notin DOMAIN fs0
    /\ errMsg.kind = "notfound" /\ exitCode = 1 /\ Len(argv) = 2

\* C2: if the export call fails, then at the end of the invocation the
\* tool has exited non-zero and no partial output file is left at the
\* requested output path, whatever that path is.
C2_NoPartialOutput ==
    (pc = "done" /\ Failed("export")) =>
        /\ exitCode # 0
        /\ ~(output_path.loc \in DOMAIN fs /\ fs[output_path.loc].kind = "partial")

C4_ArtifactExactlyAtP ==
    (/\ pc = "done" /\ exitCode = 0 /\ Len(argv) >= 2
     /\ output_path.loc # LibLoc(model_path.loc)) =>
        /\ IsDir(fs, Parent(output_path.loc))
        /\ Holds(fs, output_path.loc, Artifact(run))
        /\ ~Holds(fs, LibLoc(model_path.loc), Artifact(run))
        /\ reported = output_path /\ returned = output_path

\* the same statement for a P that is not an existing directory
C4_HoldsUnlessDirectory ==
    (/\ pc = "done" /\ exitCode = 0 /\ Len(argv) >= 2
     /\ output_path.loc # LibLoc(model_path.loc)
     /\ ~IsDir(fs0, output_path.loc)) =>
        /\ IsDir(fs, Parent(output_path.loc))
        /\ Holds(fs, output_path.loc, Artifact(run))
        /\ LibLoc(model_path.loc) \notin DOMAIN fs
        /\ reported = output_path /\ returned = output_path

OnnxAt(f) == {l \in DOMAIN f : f[l].kind = "onnx"}

KindAt(f, l) == IF l \in DOMAIN f THEN f[l].kind ELSE "absent"

\* C5: a second run with the same command line and the same explicit
\* output path ends with the exit status of the first run and the same
\* file-system state at the output path; when it succeeds the file there
\* is the second run's, and no further copy appears elsewhere.
C5_Idempotent ==
    (pc = "done" /\ run >= 2 /\ Len(argv) >= 2) =>
        /\ exitCode = prev.exit
        /\ KindAt(fs, output_path.loc) = KindAt(prev.fs, output_path.loc)
        /\ OnnxAt(fs) = OnnxAt(prev.fs)
        /\ exitCode = 0 => Holds(fs, output_path.loc, Artifact(run))

\* the same statement for an output path that is not a directory
C5_HoldsUnlessDirectory ==
    (pc = "done" /\ run >= 2 /\ Len(argv) >= 2 /\ ~IsDir(fs0, output_path.loc)) =>
        /\ exitCode = prev.exit
        /\ KindAt(fs, output_path.loc) = KindAt(prev.fs, output_path.loc)
        /\ OnnxAt(fs) = OnnxAt(prev.fs)
        /\ exitCode = 0 => Holds(fs, output_path.loc, Artifact(run))

\* C6: at the end of every invocation the exit code is 0 exactly when the
\* driver returned a path and 1 exactly when an error was raised; the
\* message is that of the first failing step, which is also the last step
\* run, and its kind is not-found for the existence check, load-failure
\* for the load and export-failure for export and relocation.
C6_ExitCode ==
    pc = "done" =>
        /\ exitCode \in {0, 1}
        /\ exitCode = 0 <=> returned # NoPath
        /\ exitCode = 1 <=> errMsg # NoMsg
        /\ errMsg = NoMsg => \A i \in 1..Len(trace) : trace[i].ok
        /\ errMsg # NoMsg =>
              /\ ~trace[Len(trace)].ok
              /\ \A i \in 1..(Len(trace) - 1) : trace[i].ok
              /\ errMsg.cause = trace[Len(trace)].step
              /\ errMsg.cause \in {"check", "load", "export", "mkdir", "move"}
              /\ errMsg.cause = "check" => errMsg.kind = "notfound"
              /\ errMsg.cause = "load" => errMsg.kind = "load"
              /\ errMsg.cause \in {"export", "mkdir", "move"} => errMsg.kind = "export"

C6_Witness == pc = "done" /\ Failed("load") /\ exitCode = 1 /\ errMsg.kind = "load"

\* C7: with no arguments and a valid checkpoint at the default input
\* path, a successful export ends with this run's artifact at the default
\* output location and exit code zero, whether the path string returned by
\* the export equals the default output path (no move) or not (move).
C7_DefaultPaths ==
    (pc = "done" /\ Len(argv) = 0 /\ DidOk("export")) =>
        /\ exitCode = 0
        /\ Holds(fs, DefaultOutputPath.loc, Artifact(run))
        /\ reported.loc = DefaultOutputPath.loc
        /\ Did("move") <=> Txt(env.retForm, DefaultOutputPath.loc) # DefaultOutputPath

C7_Witness ==
    /\ pc = "done" /\ Len(argv) = 0 /\ DidOk("move") /\ exitCode = 0
    /\ Holds(fs, DefaultOutputPath.loc, Artifact(run))

\* C8: the paths handed to the driver depend on the first two positional
\* arguments only: none gives both defaults, one gives that input and the
\* default output, two or more give the first as input and the second as
\* output; the export is always called with image size 640, simplify on,
\* opset 17, NMS embedded, dynamic shapes off.
C8_PathsAndConfig ==
    pc # "main" =>
        /\ Len(argv) = 0 => model_path = DefaultModelPath
        /\ Len(argv) <= 1 => output_path = DefaultOutputPath
        /\ Len(argv) >= 1 =>
              /\ model_path.loc = argv[1].loc
              /\ argv[1].form # "dotted" => model_path = argv[1]
        /\ Len(argv) >= 2 =>
              /\ output_path.loc = argv[2].loc
              /\ argv[2].form # "dotted" => output_path = argv[2]
        /\ Did("export") =>
              exportCfg = [format |-> "onnx", imgsz |-> 640, simplify |-> TRUE,
                           opset |-> 17, nms |-> TRUE, dynamic |-> FALSE]
        /\ ~Did("export") => exportCfg = NoCfg

C8_Witness ==
    /\ pc = "done" /\ Len(argv) = 1 /\ DidOk("export")
    /\ output_path = DefaultOutputPath /\ model_path.loc = XModelLoc

Rank(s) ==
    CASE s = "resolve" -> 1 [] s = "check" -> 2 [] s = "load" -> 3
      [] s = "export" -> 4 [] s = "mkdir" -> 5 [] s = "move" -> 6
      [] s = "verify" -> 7 [] s = "report" -> 8

\* the order of the steps alone: each at most once, in the fixed order,
\* each only after the success of the one it depends on, nothing after a
\* failure
StepOrder ==
    /\ \A i, j \in 1..Len(trace) : i < j => Rank(trace[i].step) < Rank(trace[j].step)
    /\ \A i \in 1..(Len(trace) - 1) : trace[i].ok
    /\ Did("load") => DidOk("check")
    /\ Did("export") => DidOk("load")
    /\ Did("mkdir") => DidOk("export")
    /\ Did("move") => DidOk("mkdir")
    /\ Did("verify") => DidOk("export") /\ (Did("mkdir") => DidOk("move"))
    /\ Did("report") => DidOk("verify")
    /\ (pc = "done" /\ exitCode = 1) => ~trace[Len(trace)].ok

\* C9: in every execution the steps occur at most once each and in the
\* order resolve, check, load, export, mkdir, move, verify, report, each
\* only after the one before it succeeded and none after a failure, and
\* validation is applied to the artifact file at its final location.
C9_LinearSequence ==
    /\ StepOrder
    /\ Did("verify") =>
          /\ verifyTarget = exported_path
          /\ Holds(fs, verifyTarget.loc, Artifact(run))

\* C10: when the export succeeded and the relocation (mkdir or move)
\* failed, the tool prints an export-failure and exits 1, validation is
\* not run, no success message is printed, and this run's artifact is
\* still at the library's default output location and not at the requested
\* output path.
C10_RelocationFailure ==
    (pc = "done" /\ DidOk("export") /\ (Failed("mkdir") \/ Failed("move"))) =>
        /\ errMsg.kind = "export"
        /\ exitCode = 1
        /\ ~Did("verify") /\ verifyResult = "none" /\ verifyTarget = NoPath
        /\ successMsg = NoPath /\ reported = NoPath /\ returned = NoPath
        /\ Holds(fs, LibLoc(model_path.loc), Artifact(run))
        /\ ~Holds(fs, output_path.loc, Artifact(run))

C10_Witness ==
    /\ pc = "done" /\ Failed("move") /\ exitCode = 1
    /\ Holds(fs, LibLoc(model_path.loc), Artifact(run))

====
